---- MODULE Spec2Model ----
(***************************************************************************)
(* Model of maelstrom/loader.py: the Loader class that turns gridded       *)
(* forecast archives into patch-decomposed training samples.               *)
(*                                                                         *)
(* Tensors are modelled as records [shape, data]: shape is the sequence of *)
(* axis lengths and data the row-major sequence of elements, as numpy and  *)
(* TensorFlow lay them out.  Indices are 0-based as in the source.         *)
(* Optional arguments (None in Python) are <<>>; a given value v is <<v>>. *)
(***************************************************************************)
EXTENDS Integers, Sequences, FiniteSets, TLC

VARIABLES
    filenames,  \* the archive files the glob patterns resolved to
    kwargs,     \* the keyword arguments given to Loader(...) / from_config
    self,       \* the fields of the Loader object
    pc,         \* position of the caller: which operation runs next
    arg,        \* the (predictors, targets) pair handed to a stage
    ret,        \* what the stage returned
    z,          \* get_dataset: file indices not yet read
    slices,     \* get_dataset: lead-time slices waiting to be chunked
    chunks,     \* get_dataset: every chunk handed to the transform chain
    inflight,   \* get_dataset: chunks inside the parallel map, in order
    collected,  \* get_dataset: processed slices waiting to be re-batched
    units,      \* get_dataset: sample units waiting to be batched
    batches,    \* get_dataset: batches delivered to the consumer
    cached,     \* get_dataset: what the cache() stage holds
    epoch       \* get_dataset: which iteration over the dataset is running

vars == <<filenames, kwargs, self, pc, arg, ret, z, slices, chunks, inflight,
          collected, units, batches, cached, epoch>>

pipevars == <<z, slices, chunks, inflight, collected, units, batches, cached, epoch>>

----------------------------------------------------------------------------
(* Bounds of the model *)

MaxL == 2
MaxY == 4
MaxX == 5
MaxC == 2

----------------------------------------------------------------------------
(* Python values *)

None == <<>>
Some(v) == <<v>>
IsNone(o) == o = <<>>
Get(o) == o[1]

Min(a, b) == IF a <= b THEN a ELSE b

CeilDiv(a, b) == (a + b - 1) \div b

----------------------------------------------------------------------------
(* Tensors: row-major arrays with a shape *)

RECURSIVE Size(_)
Size(shape) == IF shape = <<>> THEN 1 ELSE Head(shape) * Size(Tail(shape))

RECURSIVE Offset(_, _)
Offset(shape, idx) ==
    IF shape = <<>> THEN 0
    ELSE Head(idx) * Size(Tail(shape)) + Offset(Tail(shape), Tail(idx))

RECURSIVE Unravel(_, _)
Unravel(shape, k) ==
    IF shape = <<>> THEN <<>>
    ELSE <<k \div Size(Tail(shape))>> \o Unravel(Tail(shape), k % Size(Tail(shape)))

\* (the concatenation with <<>> makes TLC build the sequence once)
Tensor(shape, F(_)) ==
    [shape |-> shape,
     data |-> [k \in 1..Size(shape) |-> F(Unravel(shape, k - 1))] \o <<>>]

At(t, idx) == t.data[Offset(t.shape, idx) + 1]

Indices(shape) == {Unravel(shape, k) : k \in 0..(Size(shape) - 1)}

InsertAt(s, i, v) == SubSeq(s, 1, i - 1) \o <<v>> \o SubSeq(s, i, Len(s))

RemoveAt(s, i) == SubSeq(s, 1, i - 1) \o SubSeq(s, i + 1, Len(s))

\* tf.range(n): the 1-D tensor 0, 1, ..., n-1
tf_range(n) == Tensor(<<n>>, LAMBDA idx : idx[1])

\* tf.expand_dims(t, axis): a length-1 axis inserted before 0-based `axis`
\* (axis = -1 appends it); the data are untouched
tf_expand_dims(t, axis) ==
    LET pos == IF axis < 0 THEN Len(t.shape) + 2 + axis ELSE axis + 1
    IN  [shape |-> InsertAt(t.shape, pos, 1), data |-> t.data]

\* tf.tile(t, multiples): t repeated multiples[i] times along axis i
tf_tile(t, multiples) ==
    Tensor([i \in 1..Len(t.shape) |-> t.shape[i] * multiples[i]],
           LAMBDA idx : At(t, [i \in 1..Len(t.shape) |-> idx[i] % t.shape[i]]))

\* tf.reshape(t, shape): same row-major data under a new shape
tf_reshape(t, shape) == [shape |-> shape, data |-> t.data]

\* tf.transpose(t, perm): output axis i is input axis perm[i] (perm is 0-based)
tf_transpose(t, perm) ==
    LET n == Len(perm)
        inv(a) == CHOOSE i \in 1..n : perm[i] = a - 1
    IN  Tensor([i \in 1..n |-> t.shape[perm[i] + 1]],
               LAMBDA idx : At(t, [a \in 1..n |-> idx[inv(a)]]))

\* tf.concat(ts, axis = last): tensors joined along their last axis
RECURSIVE tf_concat_last(_)
tf_concat_last(ts) ==
    IF Len(ts) = 1 THEN ts[1]
    ELSE LET a == ts[1]
             b == tf_concat_last(Tail(ts))
             n == Len(a.shape)
             ca == a.shape[n]
         IN  Tensor([a.shape EXCEPT ![n] = ca + b.shape[n]],
                    LAMBDA idx : IF idx[n] < ca THEN At(a, idx)
                                 ELSE At(b, [idx EXCEPT ![n] = idx[n] - ca]))

\* t[..., i]: element i of the last axis, that axis dropped
LastAxisAt(t, i) ==
    LET n == Len(t.shape)
    IN  Tensor(SubSeq(t.shape, 1, n - 1), LAMBDA idx : At(t, idx \o <<i>>))

\* elementwise tf.math.subtract of two tensors of one shape
tf_subtract(a, b) == [shape |-> a.shape, data |-> [k \in 1..Len(a.data) |-> a.data[k] - b.data[k]]]

\* Dataset.unbatch on one element: the sub-tensors along its first axis
Unbatch(t) ==
    [i \in 1..t.shape[1] |->
        Tensor(Tail(t.shape), LAMBDA idx : At(t, <<i - 1>> \o idx))]

\* Dataset.batch on a run of elements: stacked along a new first axis
Stack(ts) ==
    Tensor(<<Len(ts)>> \o ts[1].shape, LAMBDA idx : At(ts[idx[1] + 1], Tail(idx)))

\* the client's array whose element at idx is base + its row-major offset, so
\* every element tells where it came from
Tagged(base, shape) == Tensor(shape, LAMBDA idx : base + Offset(shape, idx))

----------------------------------------------------------------------------
(* Loader.patch *)

\* tf.image.extract_patches(a, [1,ps,ps,1], [1,ps,ps,1], rates 1, "SAME") on
\* an input whose spatial axes are multiples of ps: one output pixel per
\* tile, its depth the tile's elements in (row, column, channel) order
tf_image_extract_patches(a, ps) ==
    LET P == a.shape[4]
    IN  Tensor(<<a.shape[1], CeilDiv(a.shape[2], ps), CeilDiv(a.shape[3], ps), ps * ps * P>>,
               LAMBDA idx :
                   LET d == idx[4]
                       c == d % P
                       j == (d \div P) % ps
                       i == d \div (P * ps)
                   IN  At(a, <<idx[1], idx[2] * ps + i, idx[3] * ps + j, c>>))

patch_tensor_leading_edge(a, ps) ==
    LET LT == a.shape[1]
        Y == a.shape[2]
        X == a.shape[3]
        P == a.shape[4]
        num_patches_y == Y \div ps
        num_patches_x == X \div ps
        trimmed == Tensor(<<LT, num_patches_y * ps, num_patches_x * ps, P>>,
                          LAMBDA idx : At(a, <<idx[1], idx[2] + (Y % ps), idx[3] + (X % ps), idx[4]>>))
        e == tf_image_extract_patches(trimmed, ps)
    IN  tf_reshape(e, <<LT, num_patches_y * num_patches_x, ps, ps, P>>)

patch_tensor(a, ps) ==
    LET LT == a.shape[1]
        Y == a.shape[2]
        X == a.shape[3]
        P == a.shape[4]
        num_patches_y == Y \div ps
        num_patches_x == X \div ps
        \* a[:, :Y//ps * ps, :X//ps * ps, :]
        trimmed == Tensor(<<LT, num_patches_y * ps, num_patches_x * ps, P>>,
                          LAMBDA idx : At(a, idx))
        e == tf_image_extract_patches(trimmed, ps)
    IN  tf_reshape(e, <<LT, num_patches_y * num_patches_x, ps, ps, P>>)

patch(patch_size, predictors, targets) ==
    IF IsNone(patch_size)
    THEN [p |-> tf_expand_dims(predictors, 1), t |-> tf_expand_dims(targets, 1)]
    ELSE [p |-> patch_tensor(predictors, Get(patch_size)),
          t |-> patch_tensor(targets, Get(patch_size))]

----------------------------------------------------------------------------
(* Loader.diff *)

\* list.index(name): 0-based position of the first occurrence
ListIndex(names, name) ==
    (CHOOSE i \in 1..Len(names) :
        names[i] = name /\ \A j \in 1..(i - 1) : names[j] # name) - 1

Contains(names, name) == \E i \in 1..Len(names) : names[i] = name

raw_predictor_index_last(predict_diff, predictor_names) ==
    IF predict_diff
    THEN IF Contains(predictor_names, "air_temperature_2m")
         THEN [exc |-> "", val |-> Some(Len(predictor_names) - 1)]
         ELSE [exc |-> "ValueError", val |-> None]
    ELSE [exc |-> "", val |-> None]

raw_predictor_index_eager(predict_diff, predictor_names) ==
    IF Contains(predictor_names, "air_temperature_2m")
    THEN [exc |-> "", val |-> IF predict_diff
                              THEN Some(ListIndex(predictor_names, "air_temperature_2m"))
                              ELSE None]
    ELSE [exc |-> "ValueError", val |-> None]

\* the property returns the index only inside the `if`; otherwise the
\* function falls off its end and yields None
raw_predictor_index(predict_diff, predictor_names) ==
    IF predict_diff
    THEN IF Contains(predictor_names, "air_temperature_2m")
         THEN [exc |-> "", val |-> Some(ListIndex(predictor_names, "air_temperature_2m"))]
         ELSE [exc |-> "ValueError", val |-> None]
    ELSE [exc |-> "", val |-> None]

diff(predict_diff, predictor_names, predictors, targets) ==
    LET r == raw_predictor_index(predict_diff, predictor_names)
    IN  IF r.exc # "" THEN [exc |-> r.exc, p |-> predictors, t |-> targets]
        ELSE IF IsNone(r.val) THEN [exc |-> "", p |-> predictors, t |-> targets]
        ELSE LET Ip == Get(r.val)
                 v == tf_expand_dims(LastAxisAt(predictors, Ip), -1)
             IN  [exc |-> "", p |-> predictors, t |-> tf_subtract(targets, v)]

----------------------------------------------------------------------------
(* The archive files and xarray *)

\* t with its 1-based `axis` reduced to the 0-based `indices`, in their order
\* (xarray isel / numpy integer-array indexing)
TakeAxis(t, axis, indices) ==
    Tensor([t.shape EXCEPT ![axis] = Len(indices)],
           LAMBDA idx : At(t, [idx EXCEPT ![axis] = indices[idx[axis] + 1]]))

\* xr.open_dataset(filename): the coordinates and the three data variables of
\* a file.  A file f is [predictor, static_predictor, leadtime, y, x, base];
\* its data are tagged from f.base on, so that a value names its file and place
xr_open_dataset(f) ==
    LET pshape == <<Len(f.leadtime), f.y, f.x, Len(f.predictor)>>
        sshape == <<f.y, f.x, Len(f.static_predictor)>>
        tshape == <<Len(f.leadtime), f.y, f.x>>
    IN  [predictor |-> f.predictor,
         static_predictor |-> f.static_predictor,
         leadtime |-> f.leadtime,
         y |-> f.y,
         x |-> f.x,
         predictors |-> Tagged(f.base, pshape),
         static_predictors |-> Tagged(f.base + Size(pshape), sshape),
         target_mean |-> Tagged(f.base + Size(pshape) + Size(sshape), tshape)]

Select(s, indices) == [k \in 1..Len(indices) |-> s[indices[k] + 1]]

InRange(o, n) == IsNone(o) \/ \A k \in 1..Len(Get(o)) : Get(o)[k] \in 0..(n - 1)

\* a dimension with no limit is left as it is
SelectDim(s, o) == IF IsNone(o) THEN s ELSE Select(s, Get(o))

LenDim(n, o) == IF IsNone(o) THEN n ELSE Len(Get(o))

TakeDim(t, axis, o) == IF IsNone(o) THEN t ELSE TakeAxis(t, axis, Get(o))

\* dataset.isel(**limit): every limited dimension reduced to the given
\* indices; an index outside a dimension raises IndexError
isel(ds, limit) ==
    IF ~(/\ InRange(limit.predictor, Len(ds.predictor))
         /\ InRange(limit.static_predictor, Len(ds.static_predictor))
         /\ InRange(limit.leadtime, Len(ds.leadtime))
         /\ InRange(limit.x, ds.x)
         /\ InRange(limit.y, ds.y))
    THEN [exc |-> "IndexError"]
    ELSE [exc |-> "",
          predictor |-> SelectDim(ds.predictor, limit.predictor),
          static_predictor |-> SelectDim(ds.static_predictor, limit.static_predictor),
          leadtime |-> SelectDim(ds.leadtime, limit.leadtime),
          y |-> LenDim(ds.y, limit.y),
          x |-> LenDim(ds.x, limit.x),
          predictors |->
              TakeDim(TakeDim(TakeDim(TakeDim(ds.predictors, 1, limit.leadtime),
                                      2, limit.y), 3, limit.x), 4, limit.predictor),
          static_predictors |->
              TakeDim(TakeDim(TakeDim(ds.static_predictors, 1, limit.y),
                              2, limit.x), 3, limit.static_predictor),
          target_mean |->
              TakeDim(TakeDim(TakeDim(ds.target_mean, 1, limit.leadtime),
                              2, limit.y), 3, limit.x)]

\* [i for i in range(len(names)) if names[i] in allowed]
RECURSIVE IndicesIn(_, _, _)
IndicesIn(names, allowed, i) ==
    IF i > Len(names) THEN <<>>
    ELSE (IF Contains(allowed, names[i]) THEN <<i - 1>> ELSE <<>>)
         \o IndicesIn(names, allowed, i + 1)

get_dimension_limits_no_leadtime(o, dataset) ==
    [predictor |-> IF IsNone(o.limit_predictors) THEN None
                   ELSE Some(IndicesIn(dataset.predictor, Get(o.limit_predictors), 1)),
     static_predictor |-> IF IsNone(o.limit_predictors) THEN None
                          ELSE Some(IndicesIn(dataset.static_predictor, Get(o.limit_predictors), 1)),
     leadtime |-> None,
     x |-> o.x_range,
     y |-> o.y_range]

\* called with leadtime_indices = None by load_metadata and parse_file alike
get_dimension_limits(o, dataset) ==
    [predictor |-> IF IsNone(o.limit_predictors) THEN None
                   ELSE Some(IndicesIn(dataset.predictor, Get(o.limit_predictors), 1)),
     static_predictor |-> IF IsNone(o.limit_predictors) THEN None
                          ELSE Some(IndicesIn(dataset.static_predictor, Get(o.limit_predictors), 1)),
     leadtime |-> o.limit_leadtimes,
     x |-> o.x_range,
     y |-> o.y_range]

----------------------------------------------------------------------------
(* Loader.from_config *)

\* A configuration value is [type |-> "str", v |-> characters] or
\* [type |-> "list", v |-> indices]
Str(chars) == [type |-> "str", v |-> chars]
List(seq) == [type |-> "list", v |-> seq]

Digits == <<"0", "1", "2", "3", "4", "5", "6", "7", "8", "9">>

IsDigit(ch) == \E d \in 1..10 : Digits[d] = ch

DigitVal(ch) == (CHOOSE d \in 1..10 : Digits[d] = ch) - 1

\* int(s) of a string of decimal digits; "" and non-digits raise ValueError
RECURSIVE ParseInt(_, _)
ParseInt(chars, acc) ==
    IF chars = <<>> THEN acc
    ELSE ParseInt(Tail(chars), 10 * acc + DigitVal(Head(chars)))

IsInt(chars) == chars # <<>> /\ \A k \in 1..Len(chars) : IsDigit(chars[k])

Colons(chars) == {k \in 1..Len(chars) : chars[k] = ":"}

\* range(a, b) as the list of its elements
PyRange(a, b) == [k \in 1..(IF b > a THEN b - a ELSE 0) |-> a + k - 1]

parse_range_inclusive(curr) ==
    IF curr.type # "str" THEN [exc |-> "", val |-> curr.v]
    ELSE IF Cardinality(Colons(curr.v)) # 1 THEN [exc |-> "ValueError", val |-> <<>>]
    ELSE LET c == CHOOSE k \in Colons(curr.v) : TRUE
             start == SubSeq(curr.v, 1, c - 1)
             end == SubSeq(curr.v, c + 1, Len(curr.v))
         IN  IF IsInt(start) /\ IsInt(end)
             THEN [exc |-> "", val |-> PyRange(ParseInt(start, 0), ParseInt(end, 0) + 1)]
             ELSE [exc |-> "ValueError", val |-> <<>>]

\* the body of the loop over range_variables for one value: a string
\* "start:end" becomes range(int(start), int(end)); no colon, more than one
\* colon (the unpacking of split) or a non-integer part raise ValueError
parse_range(curr) ==
    IF curr.type # "str" THEN [exc |-> "", val |-> curr.v]
    ELSE IF Cardinality(Colons(curr.v)) # 1 THEN [exc |-> "ValueError", val |-> <<>>]
    ELSE LET c == CHOOSE k \in Colons(curr.v) : TRUE
             start == SubSeq(curr.v, 1, c - 1)
             end == SubSeq(curr.v, c + 1, Len(curr.v))
         IN  IF IsInt(start) /\ IsInt(end)
             THEN [exc |-> "", val |-> PyRange(ParseInt(start, 0), ParseInt(end, 0))]
             ELSE [exc |-> "ValueError", val |-> <<>>]

RangeVariables == {"x_range", "y_range", "limit_leadtimes"}

\* from_config(config): the keyword arguments handed to Loader(**kwargs)
from_config(config) ==
    LET parsed == [k \in RangeVariables |->
                      IF IsNone(config[k]) THEN [exc |-> "", val |-> <<>>]
                      ELSE parse_range(Get(config[k]))]
    IN  IF \E k \in RangeVariables : parsed[k].exc # ""
        THEN [exc |-> "ValueError"]
        ELSE [exc |-> "",
              kwargs |-> [k \in DOMAIN config |->
                             IF k \in RangeVariables /\ ~IsNone(config[k])
                             THEN Some(parsed[k].val)
                             ELSE config[k]]]

----------------------------------------------------------------------------
(* Loader.__init__: metadata and normalization coefficients *)

\* An extra-feature descriptor is [type |-> "x" | "y" | "leadtime",
\* name |-> None | Some(string)]
get_feature_name(feature) ==
    IF ~IsNone(feature.name) THEN Get(feature.name) ELSE feature.type

FeatureNames(extra_features) ==
    [k \in 1..Len(extra_features) |-> get_feature_name(extra_features[k])]

load_metadata_count_all(o, filename) ==
    LET dataset0 == xr_open_dataset(filename)
        dataset == isel(dataset0, get_dimension_limits(o, dataset0))
    IN  IF dataset.exc # "" THEN [exc |-> dataset.exc]
        ELSE IF ~IsNone(o.patch_size)
                /\ (Get(o.patch_size) > dataset.x \/ Get(o.patch_size) > dataset.y)
        THEN [exc |-> "ValueError"]
        ELSE [exc |-> "",
              leadtimes |-> dataset.leadtime,
              num_x_input |-> dataset.x,
              num_y_input |-> dataset.y,
              num_input_predictors |-> Len(dataset0.predictor) + Len(dataset0.static_predictor),
              num_predictors |->
                  IF ~IsNone(o.limit_predictors) THEN Len(Get(o.limit_predictors))
                  ELSE Len(dataset.predictor) + Len(dataset.static_predictor)
                       + Len(o.extra_features),
              predictor_names_input |-> dataset.predictor \o dataset.static_predictor,
              predictor_names |-> dataset.predictor \o dataset.static_predictor
                                  \o FeatureNames(o.extra_features),
              num_targets |-> 1]

load_metadata_patch_x_only(o, filename) ==
    LET dataset0 == xr_open_dataset(filename)
        dataset == isel(dataset0, get_dimension_limits(o, dataset0))
    IN  IF dataset.exc # "" THEN [exc |-> dataset.exc]
        ELSE IF ~IsNone(o.patch_size) /\ Get(o.patch_size) > dataset0.x
        THEN [exc |-> "ValueError"]
        ELSE [exc |-> "",
              leadtimes |-> dataset.leadtime,
              num_x_input |-> dataset.x,
              num_y_input |-> dataset.y,
              num_input_predictors |-> Len(dataset.predictor) + Len(dataset.static_predictor),
              num_predictors |->
                  IF ~IsNone(o.limit_predictors) THEN Len(Get(o.limit_predictors))
                  ELSE Len(dataset.predictor) + Len(dataset.static_predictor)
                       + Len(o.extra_features),
              predictor_names_input |-> dataset.predictor \o dataset.static_predictor,
              predictor_names |-> dataset.predictor \o dataset.static_predictor
                                  \o FeatureNames(o.extra_features),
              num_targets |-> 1]

\* o holds the fields __init__ has set before the call (lines 84-97)
load_metadata(o, filename) ==
    LET dataset0 == xr_open_dataset(filename)
        dataset == isel(dataset0, get_dimension_limits(o, dataset0))
    IN  IF dataset.exc # "" THEN [exc |-> dataset.exc]
        ELSE IF ~IsNone(o.patch_size)
                /\ (Get(o.patch_size) > dataset.x \/ Get(o.patch_size) > dataset.y)
        THEN [exc |-> "ValueError"]
        ELSE [exc |-> "",
              leadtimes |-> dataset.leadtime,
              num_x_input |-> dataset.x,
              num_y_input |-> dataset.y,
              num_input_predictors |-> Len(dataset.predictor) + Len(dataset.static_predictor),
              num_predictors |->
                  IF ~IsNone(o.limit_predictors) THEN Len(Get(o.limit_predictors))
                  ELSE Len(dataset.predictor) + Len(dataset.static_predictor)
                       + Len(o.extra_features),
              predictor_names_input |-> dataset.predictor \o dataset.static_predictor,
              predictor_names |-> dataset.predictor \o dataset.static_predictor
                                  \o FeatureNames(o.extra_features),
              num_targets |-> 1]

\* A (mean, scale) pair is kept as <<2*mean, 12*scale^2>>, which is integral
\* for the mean and standard deviation of 0..N-1: (N-1)/2 and
\* sqrt((N^2-1)/12).  The default [0, 1] is <<0, 12>>.
DefaultCoefficient == <<0, 12>>

\* [np.mean(np.arange(N)), np.std(np.arange(N))]
ArangeMeanStd(N) == <<N - 1, N * N - 1>>

\* the dict the loop builds: a later feature of the same name overwrites
get_extra_features_normalization(o, extra_features) ==
    LET names == {get_feature_name(extra_features[k]) : k \in 1..Len(extra_features)}
        last(n) == CHOOSE k \in 1..Len(extra_features) :
                      /\ get_feature_name(extra_features[k]) = n
                      /\ \A j \in (k + 1)..Len(extra_features) :
                            get_feature_name(extra_features[j]) # n
        curr(feature) ==
            CASE feature.type = "x" -> ArangeMeanStd(o.num_x_input)
              [] feature.type = "y" -> ArangeMeanStd(o.num_y_input)
              [] feature.type = "leadtime" -> ArangeMeanStd(Len(o.leadtimes))
              [] OTHER -> DefaultCoefficient
    IN  [n \in names |-> curr(extra_features[last(n)])]

\* `name in self.extra_features` compares a string with the descriptors
\* (dicts) of the list, so it never holds
NameInExtraFeatures(name, extra_features) == FALSE

merge_source_wins(source, extra) ==
    [k \in (DOMAIN source) \cup (DOMAIN extra) |->
        IF k \in DOMAIN source THEN source[k] ELSE extra[k]]

\* for k, v in extra.items(): coefficients[k] = v
merge_coefficients(source, extra) ==
    [k \in (DOMAIN source) \cup (DOMAIN extra) |->
        IF k \in DOMAIN extra THEN extra[k] ELSE source[k]]

\* o holds the fields set by __init__ and load_metadata; o.normalization is
\* None or Some(mapping read from the YAML file)
load_coefficients(o) ==
    IF IsNone(o.normalization) THEN [exc |-> "", coefficients |-> None]
    ELSE LET rows == o.num_predictors
             coefficients == merge_coefficients(Get(o.normalization),
                                 get_extra_features_normalization(o, o.extra_features))
             names == o.predictor_names
         IN  IF \E i \in 1..Len(names) :
                    /\ \A j \in 1..(i - 1) : j <= rows
                    /\ names[i] \notin DOMAIN coefficients
                    /\ NameInExtraFeatures(names[i], o.extra_features)
             THEN [exc |-> "NameError", coefficients |-> None]
             ELSE IF Len(names) > rows
             THEN [exc |-> "IndexError", coefficients |-> None]
             ELSE [exc |-> "",
                   coefficients |->
                       Some([i \in 1..rows |->
                               IF i <= Len(names) /\ names[i] \in DOMAIN coefficients
                               THEN coefficients[names[i]]
                               ELSE DefaultCoefficient])]

Merge(r1, r2) ==
    [k \in (DOMAIN r1) \cup (DOMAIN r2) |-> IF k \in DOMAIN r2 THEN r2[k] ELSE r1[k]]

\* Loader(**kw) on the resolved file list: the object's fields, or the
\* exception that ends the construction.  The to_gpu argument is stored
\* nowhere.  Of the timer self.logger the model keeps how often
\* logger.add("to_gpu", ...) was called.
Loader__init__(files, kw) ==
    LET o1 == [exc |-> "",
               extra_features |-> kw.extra_features,
               limit_predictors |-> kw.limit_predictors,
               limit_leadtimes |-> kw.limit_leadtimes,
               x_range |-> kw.x_range,
               y_range |-> kw.y_range,
               patch_size |-> kw.patch_size,
               predict_diff |-> kw.predict_diff,
               batch_size |-> kw.batch_size,
               cache |-> kw.cache]
    IN  IF files = <<>> THEN [exc |-> "IndexError"]
        ELSE LET m == load_metadata(o1, files[1])
             IN  IF m.exc # "" THEN [exc |-> m.exc]
                 ELSE LET o2 == Merge(Merge(o1, m),
                                      [normalization |-> kw.normalization,
                                       fake |-> kw.fake,
                                       num_parallel_calls |-> kw.num_parallel_calls])
                          c == load_coefficients(o2)
                      IN  IF c.exc # "" THEN [exc |-> c.exc]
                          ELSE Merge(o2, [logger |-> [to_gpu |-> 0],
                                          coefficients |-> c.coefficients,
                                          count_reads |-> 0])

----------------------------------------------------------------------------
(* Loader properties that count patches *)

num_y_patches(o) ==
    IF ~IsNone(o.patch_size) THEN o.num_y_input \div Get(o.patch_size) ELSE 1

num_x_patches(o) ==
    IF ~IsNone(o.patch_size) THEN o.num_x_input \div Get(o.patch_size) ELSE 1

num_x(o) == IF ~IsNone(o.patch_size) THEN Get(o.patch_size) ELSE o.num_x_input

num_y(o) == IF ~IsNone(o.patch_size) THEN Get(o.patch_size) ELSE o.num_y_input

predictor_shape(o) == <<Len(o.leadtimes), num_y(o), num_x(o), o.num_predictors>>

num_patches_per_file(o) == num_x_patches(o) * num_y_patches(o)

----------------------------------------------------------------------------
(* Reading a file *)

\* np.concatenate((predictors, static_predictors), axis=3) after the static
\* array has been copied into every lead time
merge_static(predictors, static_predictors0) ==
    LET LT == predictors.shape[1]
        static_predictors ==
            Tensor(<<LT>> \o static_predictors0.shape,
                   LAMBDA idx : At(static_predictors0, Tail(idx)))
    IN  tf_concat_last(<<predictors, static_predictors>>)

parse_file(o, filename) ==
    LET dataset0 == xr_open_dataset(filename)
        dataset == isel(dataset0, get_dimension_limits(o, dataset0))
    IN  IF dataset.exc # "" THEN [exc |-> dataset.exc]
        ELSE [exc |-> "",
              p |-> IF Len(dataset.static_predictor) > 0
                    THEN merge_static(dataset.predictors, dataset.static_predictors)
                    ELSE dataset.predictors,
              t |-> tf_expand_dims(dataset.target_mean, 3)]

generate_fake_data(o, index) ==
    [exc |-> "",
     p |-> Tensor(<<Len(o.leadtimes), o.num_y_input, o.num_x_input, o.num_input_predictors>>,
                  LAMBDA idx : 0),
     t |-> Tensor(<<Len(o.leadtimes), o.num_y_input, o.num_x_input, 1>>, LAMBDA idx : 0)]

\* index is 0-based; the caller adds 1 to count_reads when no exception is raised
load_file(o, files, index) ==
    IF o.fake THEN generate_fake_data(o, index)
    ELSE parse_file(o, files[index + 1])

----------------------------------------------------------------------------
(* The other stages of the transform chain *)

\* Loader.broadcast(tensor, final_shape, axis) of a 1-D tensor
broadcast(tensor, final_shape, axis) ==
    IF axis = 2
    THEN tf_tile(tf_expand_dims(tf_expand_dims(tensor, 0), 1),
                 <<final_shape[1], final_shape[2], 1>>)
    ELSE IF axis = 1
    THEN tf_tile(tf_expand_dims(tf_expand_dims(tensor, 0), 2),
                 <<final_shape[1], 1, final_shape[3]>>)
    ELSE tf_tile(tf_expand_dims(tf_expand_dims(tensor, 1), 2),
                 <<1, final_shape[2], final_shape[3]>>)

\* the channel of one descriptor, from the shape of the array the stage was
\* handed (a chunk, when the lead times were split)
feature_channel(feature, shape) ==
    LET curr == CASE feature.type = "x" -> broadcast(tf_range(shape[3]), shape, 2)
                  [] feature.type = "y" -> broadcast(tf_range(shape[2]), shape, 1)
                  [] feature.type = "leadtime" -> broadcast(tf_range(shape[1]), shape, 0)
    IN  tf_expand_dims(curr, -1)

extract_features(extra_features, predictors, targets) ==
    LET shape == predictors.shape
        p == <<predictors>> \o [f \in 1..Len(extra_features) |->
                                   feature_channel(extra_features[f], shape)]
    IN  [p |-> tf_concat_last(p), t |-> targets]

\* (x - mean) / scale is kept unevaluated as <<x, 2*mean, 12*scale^2>>
Normalized(x, coefficient) == <<x, coefficient[1], coefficient[2]>>

\* subtracting and dividing by the tiled columns of the table; a table whose
\* row count is not the channel count cannot be broadcast against predictors
normalize(coefficients, predictors, targets) ==
    IF IsNone(coefficients) THEN [exc |-> "", p |-> predictors, t |-> targets]
    ELSE LET table == Get(coefficients)
             n == Len(predictors.shape)
         IN  IF Len(table) # predictors.shape[n]
             THEN [exc |-> "InvalidArgumentError", p |-> predictors, t |-> targets]
             ELSE [exc |-> "",
                   p |-> Tensor(predictors.shape,
                                LAMBDA idx : Normalized(At(predictors, idx), table[idx[n] + 1])),
                   t |-> targets]

\* Loader.process: extract_features, patch, diff, normalize in turn
process(o, predictors, targets) ==
    LET e == extract_features(o.extra_features, predictors, targets)
        q == patch(o.patch_size, e.p, e.t)
        d == diff(o.predict_diff, o.predictor_names, q.p, q.t)
    IN  IF d.exc # "" THEN d
        ELSE normalize(o.coefficients, d.p, d.t)

reorder(predictors, targets) ==
    [p |-> tf_transpose(predictors, <<1, 0, 2, 3, 4>>),
     t |-> tf_transpose(targets, <<1, 0, 2, 3, 4>>)]

\* Loader.to_gpu: tf.identity of both tensors
to_gpu(p, t) == [p |-> p, t |-> t]

----------------------------------------------------------------------------
(* Calls of single stages on arbitrary inputs *)

\* the cache() stage before its first element
NoCache == [complete |-> FALSE, units |-> <<>>]

NoPipeline ==
    /\ z = <<>> /\ slices = <<>> /\ chunks = <<>> /\ inflight = <<>>
    /\ collected = <<>> /\ units = <<>> /\ batches = <<>>
    /\ cached = NoCache /\ epoch = 0

PatchSizes(Y, X) == {None} \cup {Some(ps) : ps \in 1..Min(Y, X)}

InitPatch ==
    /\ \E L \in 1..MaxL, Y \in 1..MaxY, X \in 1..MaxX, C \in 1..MaxC :
         /\ arg = [p |-> Tagged(0, <<L, Y, X, C>>),
                   t |-> Tagged(L * Y * X * C, <<L, Y, X, 1>>)]
         /\ \E ps \in PatchSizes(Y, X) : self = [patch_size |-> ps]
    /\ filenames = <<>> /\ kwargs = <<>>
    /\ pc = "patch" /\ ret = None
    /\ NoPipeline

CallPatch ==
    /\ pc = "patch"
    /\ ret' = patch(self.patch_size, arg.p, arg.t)
    /\ pc' = "done"
    /\ UNCHANGED <<filenames, kwargs, self, arg, pipevars>>

SpecPatch == InitPatch /\ [][CallPatch]_vars

NameLists ==
    {<<"air_temperature_2m">>, <<"air_temperature_2m", "precipitation">>,
     <<"precipitation", "air_temperature_2m">>, <<"precipitation">>,
     <<"precipitation", "altitude">>}

InitDiff ==
    /\ \E L \in 1..MaxL, K \in 1..2, Y \in 1..2, X \in 1..2, names \in NameLists :
         /\ arg = [p |-> Tagged(0, <<L, K, Y, X, Len(names)>>),
                   t |-> Tagged(L * K * Y * X * Len(names), <<L, K, Y, X, 1>>)]
         /\ \E d \in BOOLEAN : self = [predict_diff |-> d, predictor_names |-> names]
    /\ filenames = <<>> /\ kwargs = <<>>
    /\ pc = "diff" /\ ret = None
    /\ NoPipeline

CallDiff ==
    /\ pc = "diff"
    /\ ret' = diff(self.predict_diff, self.predictor_names, arg.p, arg.t)
    /\ pc' = "done"
    /\ UNCHANGED <<filenames, kwargs, self, arg, pipevars>>

SpecDiff == InitDiff /\ [][CallDiff]_vars

----------------------------------------------------------------------------
(* Construction of a Loader and reads of single files *)

MaxReads == 1

Coords(n) == [k \in 1..n |-> 3600 * (k - 1)]

FileA(nl, statics, base) ==
    [predictor |-> <<"air_temperature_2m", "precipitation">>,
     static_predictor |-> statics, leadtime |-> Coords(nl), y |-> 2, x |-> 3, base |-> base]

\* as FileA in every axis length, with other predictor names
FileB(nl, statics, base) ==
    [predictor |-> <<"precipitation", "wind_speed">>,
     static_predictor |-> statics, leadtime |-> Coords(nl), y |-> 2, x |-> 3, base |-> base]

FileStride == 5 * 2 * 3 * 4

Archives ==
    {<<>>,
     <<FileA(3, <<>>, 0)>>,
     <<FileA(5, <<"altitude">>, 0)>>,
     <<FileA(5, <<"altitude">>, 0), FileA(5, <<"altitude">>, FileStride)>>,
     <<FileA(5, <<"altitude">>, 0), FileB(5, <<"altitude">>, FileStride)>>,
     <<FileA(3, <<>>, 0), FileB(3, <<>>, FileStride)>>}

Feature(type) == [type |-> type, name |-> None]
NamedFeature(type, name) == [type |-> type, name |-> Some(name)]

\* mean 270, scale 10 for the temperature; mean 1, scale 2 for precipitation
SourceA ==
    [n \in {"air_temperature_2m", "precipitation"} |->
        IF n = "air_temperature_2m" THEN <<540, 1200>> ELSE <<2, 48>>]

\* entries for the extra features "x" and "lt" as well
SourceB ==
    [n \in {"air_temperature_2m", "x", "lt"} |->
        CASE n = "air_temperature_2m" -> <<540, 1200>>
          [] n = "x" -> <<10, 48>>
          [] n = "lt" -> <<6, 108>>]

\* as SourceA, with a scale of 0 for precipitation
SourceZero ==
    [n \in {"air_temperature_2m", "precipitation"} |->
        IF n = "air_temperature_2m" THEN <<540, 1200>> ELSE <<2, 0>>]

Configs ==
    [limit_leadtimes : {None, Some(List(<<0, 2>>)), Some(Str(<<"1", ":", "3">>)),
                        Some(Str(<<"3">>)), Some(Str(<<"0", ":", "4">>))},
     limit_predictors : {None, Some(<<"air_temperature_2m">>),
                         Some(<<"air_temperature_2m", "altitude">>),
                         Some(<<"air_temperature_2m", "snow_depth">>),
                         Some(<<"precipitation", "x">>)},
     x_range : {None, Some(Str(<<"0", ":", "2">>)), Some(Str(<<"0", ":", "1">>))},
     y_range : {None},
     patch_size : {None, Some(2), Some(3)},
     extra_features : {<<>>, <<Feature("x")>>,
                       <<NamedFeature("leadtime", "lt"), Feature("y")>>},
     normalization : {None, Some(SourceA), Some(SourceB), Some(SourceZero)},
     predict_diff : {FALSE},
     batch_size : {1},
     cache : {FALSE},
     fake : BOOLEAN,
     num_parallel_calls : {None},
     to_gpu : {TRUE}]

InitLoader ==
    /\ filenames \in Archives
    /\ kwargs \in Configs
    /\ self = None
    /\ pc = "config"
    /\ arg = None /\ ret = None
    /\ NoPipeline

\* Loader.from_config(config), up to the call of Loader(**kwargs)
FromConfig ==
    /\ pc = "config"
    /\ LET r == from_config(kwargs)
       IN  IF r.exc # ""
           THEN /\ pc' = "rejected"
                /\ self' = [exc |-> r.exc]
                /\ UNCHANGED kwargs
           ELSE /\ pc' = "new"
                /\ kwargs' = r.kwargs
                /\ UNCHANGED self
    /\ UNCHANGED <<filenames, arg, ret, pipevars>>

\* Loader(**kwargs)
Construct ==
    /\ pc = "new"
    /\ self' = Loader__init__(filenames, kwargs)
    /\ pc' = IF self'.exc = "" THEN "constructed" ELSE "failed"
    /\ UNCHANGED <<filenames, kwargs, arg, ret, pipevars>>

\* loader.load_file(index)
CallLoadFile ==
    /\ pc = "constructed"
    /\ self.count_reads < MaxReads
    /\ \E index \in 0..(Len(filenames) - 1) :
         /\ arg' = [index |-> index]
         /\ ret' = load_file(self, filenames, index)
         /\ self' = IF ret'.exc = ""
                    THEN [self EXCEPT !.count_reads = self.count_reads + 1]
                    ELSE self
    /\ UNCHANGED <<filenames, kwargs, pc, pipevars>>

NextLoader == FromConfig \/ Construct \/ CallLoadFile

SpecLoader == InitLoader /\ [][NextLoader]_vars

----------------------------------------------------------------------------
(* Loader.get_dataset: the tf.data pipeline *)

MaxFiles == 2
MaxLeadtimes == 3
MaxParallel == 2
MaxBatch == 3

\* tf.data.AUTOTUNE
AUTOTUNE == -1

UnbatchPair(e) ==
    [i \in 1..e.p.shape[1] |-> [p |-> Unbatch(e.p)[i], t |-> Unbatch(e.t)[i]]]

StackPair(es) ==
    [p |-> Stack([i \in 1..Len(es) |-> es[i].p]),
     t |-> Stack([i \in 1..Len(es) |-> es[i].t])]

RECURSIVE Repeat(_, _)
Repeat(s, count) == IF count = 0 THEN <<>> ELSE s \o Repeat(s, count - 1)

Shuffles(n) ==
    {s \in [1..n -> 0..(n - 1)] : \A i, j \in 1..n : s[i] = s[j] => i = j}

\* math.ceil(self.num_leadtimes / num_parallel_calls)
ChunkLength(o, num_parallel_calls) == CeilDiv(Len(o.leadtimes), num_parallel_calls)

\* how many map calls may run at once (the runtime's choice under AUTOTUNE)
Workers(num_parallel_calls) ==
    IF num_parallel_calls = AUTOTUNE THEN MaxParallel ELSE num_parallel_calls

\* True once no further element can arrive from the stages listed
SourceDone == z = <<>> /\ slices = <<>>

\* get_dataset(randomize_order, num_parallel_calls, repeat), called with the
\* arguments held in arg, and the start of one iteration over the dataset
GetDataset ==
    /\ pc = "constructed"
    /\ LET num_parallel_calls ==
               IF ~IsNone(self.num_parallel_calls) THEN Get(self.num_parallel_calls)
               ELSE arg.num_parallel_calls
           num_files == Len(filenames)
       IN  \E order \in IF arg.randomize_order THEN Shuffles(num_files)
                        ELSE {[i \in 1..num_files |-> i - 1]} :
             /\ z' = IF IsNone(arg.repeat) THEN order ELSE Repeat(order, Get(arg.repeat))
             /\ arg' = [randomize_order |-> arg.randomize_order,
                        num_parallel_calls |-> num_parallel_calls,
                        repeat |-> arg.repeat,
                        z |-> z']
    /\ pc' = "streaming"
    /\ slices' = <<>> /\ chunks' = <<>> /\ inflight' = <<>>
    /\ collected' = <<>> /\ units' = <<>> /\ batches' = <<>>
    /\ cached' = NoCache /\ epoch' = 1
    /\ UNCHANGED <<filenames, kwargs, self, ret>>

\* map(load_file, num_parallel_calls=1), print_start_processing and, for a
\* numeric parallelism, unbatch: run when the next stage wants an element
ReadFile ==
    /\ pc = "streaming"
    /\ z # <<>>
    /\ Len(slices) < (IF arg.num_parallel_calls = AUTOTUNE THEN 1
                      ELSE ChunkLength(self, arg.num_parallel_calls))
    /\ LET r == load_file(self, filenames, Head(z))
       IN  IF r.exc # ""
           THEN /\ pc' = "error"
                /\ ret' = r
                /\ UNCHANGED <<self, z, slices>>
           ELSE /\ self' = [self EXCEPT !.count_reads = self.count_reads + 1]
                /\ z' = Tail(z)
                /\ slices' = slices \o (IF arg.num_parallel_calls = AUTOTUNE
                                        THEN <<[p |-> r.p, t |-> r.t]>>
                                        ELSE UnbatchPair(r))
                /\ UNCHANGED <<pc, ret>>
    /\ UNCHANGED <<filenames, kwargs, arg, chunks, inflight, collected, units, batches,
                   cached, epoch>>

\* batch(ceil(num_leadtimes / num_parallel_calls)) over the stream of slices:
\* how many of the `waiting` slices form the next chunk (0: none yet)
chunk_take(o, num_parallel_calls, waiting, exhausted) ==
    IF num_parallel_calls = AUTOTUNE THEN (IF waiting > 0 THEN 1 ELSE 0)
    ELSE IF waiting >= ChunkLength(o, num_parallel_calls)
         THEN ChunkLength(o, num_parallel_calls)
         ELSE IF exhausted /\ waiting > 0 THEN waiting ELSE 0

\* the chunking and the hand-over of a chunk to map(self.process,
\* num_parallel_calls): at most Workers calls are in flight
StartChunk ==
    /\ pc = "streaming"
    /\ Len(inflight) < Workers(arg.num_parallel_calls)
    /\ LET take == chunk_take(self, arg.num_parallel_calls, Len(slices), z = <<>>)
           chunk == IF arg.num_parallel_calls = AUTOTUNE THEN slices[1]
                    ELSE StackPair(SubSeq(slices, 1, take))
       IN  /\ take > 0
           /\ inflight' = Append(inflight, [in |-> chunk, done |-> FALSE, out |-> None])
           /\ chunks' = Append(chunks, chunk)
           /\ slices' = SubSeq(slices, take + 1, Len(slices))
    /\ UNCHANGED <<filenames, kwargs, self, pc, arg, ret, z, collected, units, batches,
                   cached, epoch>>

\* one worker finishes self.process on its chunk; workers finish in any order
FinishChunk ==
    /\ pc = "streaming"
    /\ \E i \in 1..Len(inflight) :
         /\ ~inflight[i].done
         /\ LET r == process(self, inflight[i].in.p, inflight[i].in.t)
            IN  IF r.exc # ""
                THEN /\ pc' = "error"
                     /\ ret' = r
                     /\ UNCHANGED inflight
                ELSE /\ inflight' = [inflight EXCEPT ![i] =
                                        [in |-> @.in, done |-> TRUE,
                                         out |-> Some([p |-> r.p, t |-> r.t])]]
                     /\ UNCHANGED <<pc, ret>>
    /\ UNCHANGED <<filenames, kwargs, self, arg, z, slices, chunks, collected, units, batches,
                   cached, epoch>>

ready_index_any_finished(q) ==
    IF \E i \in 1..Len(q) : q[i].done
    THEN CHOOSE i \in 1..Len(q) : q[i].done /\ \A j \in (i + 1)..Len(q) : ~q[j].done
    ELSE 0

\* Dataset.map is deterministic by default: results leave in the order the
\* inputs came, so only the oldest call's result can be taken (0: none yet)
ready_index(q) == IF q # <<>> /\ q[1].done THEN 1 ELSE 0

\* batch(self.num_leadtimes) over the processed slices: how many of the
\* `waiting` slices form the next element (0: none yet)
collect_take(o, waiting, exhausted) ==
    IF waiting >= Len(o.leadtimes) THEN Len(o.leadtimes)
    ELSE IF exhausted /\ waiting > 0 THEN waiting ELSE 0

\* the result of the oldest call leaves the map; unbatch and
\* batch(num_leadtimes) rejoin the lead times (numeric parallelism only);
\* reorder, print_done_processing and unbatch turn an element into one
\* sample unit per patch, which cache() keeps when self.cache is set
Collect ==
    /\ pc = "streaming"
    /\ Len(units) < self.batch_size
    /\ ready_index(inflight) # 0
    /\ LET k == ready_index(inflight)
           e == Get(inflight[k].out)
           rest == RemoveAt(inflight, k)
       IN  /\ inflight' = rest
           /\ IF arg.num_parallel_calls = AUTOTUNE
              THEN /\ units' = units \o UnbatchPair(reorder(e.p, e.t))
                   /\ UNCHANGED collected
              ELSE LET c == collected \o UnbatchPair(e)
                       take == collect_take(self, Len(c), SourceDone /\ rest = <<>>)
                       joined == StackPair(SubSeq(c, 1, take))
                   IN  IF take > 0
                       THEN /\ units' = units \o UnbatchPair(reorder(joined.p, joined.t))
                            /\ collected' = SubSeq(c, take + 1, Len(c))
                       ELSE /\ collected' = c
                            /\ UNCHANGED units
    /\ cached' = IF self.cache
                 THEN [cached EXCEPT !.units = @ \o SubSeq(units', Len(units) + 1, Len(units'))]
                 ELSE cached
    /\ UNCHANGED <<filenames, kwargs, self, pc, arg, ret, z, slices, chunks, batches, epoch>>

batch_take_drop_remainder(batch_size, waiting, exhausted) ==
    IF waiting >= batch_size THEN batch_size ELSE 0

\* batch(self.batch_size): how many of the `waiting` units form the next
\* batch (0: none yet); the last batch may be short
batch_take(batch_size, waiting, exhausted) ==
    IF waiting >= batch_size THEN batch_size
    ELSE IF exhausted /\ waiting > 0 THEN waiting ELSE 0

\* `if self.to_gpu:` (line 205) reads the attribute to_gpu of the object:
\* __init__ never stores its to_gpu argument, so this is the bound method
\* Loader.to_gpu, which is true
to_gpu_is_set(o) == TRUE

\* map(self.to_gpu) on the units that left the cache, when line 205 puts the
\* stage in, and batch(self.batch_size), which gives the consumer its next
\* batch; every call of to_gpu is recorded by self.logger
Deliver ==
    /\ pc = "streaming"
    /\ LET exhausted == SourceDone /\ inflight = <<>> /\ collected = <<>>
           take == batch_take(self.batch_size, Len(units), exhausted)
       IN  /\ take > 0
           /\ batches' = Append(batches,
                             StackPair([i \in 1..take |->
                                           IF to_gpu_is_set(self)
                                           THEN to_gpu(units[i].p, units[i].t)
                                           ELSE units[i]]))
           /\ self' = IF to_gpu_is_set(self)
                      THEN [self EXCEPT !.logger.to_gpu = @ + take]
                      ELSE self
           /\ units' = SubSeq(units, take + 1, Len(units))
    /\ UNCHANGED <<filenames, kwargs, pc, arg, ret, z, slices, chunks, inflight, collected,
                   cached, epoch>>

\* the iteration ends (OutOfRange) once the source is exhausted and the batch
\* stage has nothing more to give; whatever it still holds is discarded, and
\* a cache that has seen the end of its input is complete
EndOfSequence ==
    /\ pc = "streaming"
    /\ SourceDone /\ inflight = <<>> /\ collected = <<>>
    /\ batch_take(self.batch_size, Len(units), TRUE) = 0
    /\ pc' = "done"
    /\ units' = <<>>
    /\ cached' = IF self.cache THEN [cached EXCEPT !.complete = TRUE] ELSE cached
    /\ UNCHANGED <<filenames, kwargs, self, arg, ret, z, slices, chunks, inflight, collected,
                   batches, epoch>>

PipeFile(nl, names, base) ==
    [predictor |-> names, static_predictor |-> <<>>, leadtime |-> Coords(nl),
     y |-> 2, x |-> 2, base |-> base]

PipeArchives ==
    {[i \in 1..n |-> PipeFile(nl, names, (i - 1) * FileStride)] :
        n \in 1..MaxFiles, nl \in 1..MaxLeadtimes,
        names \in {<<"air_temperature_2m">>}}

PipeConfigs ==
    [limit_leadtimes : {None},
     limit_predictors : {None},
     x_range : {None},
     y_range : {None},
     patch_size : {None, Some(1)},
     extra_features : {<<>>, <<Feature("x"), Feature("y"), Feature("leadtime")>>},
     normalization : {None},
     predict_diff : {FALSE},
     batch_size : 1..MaxBatch,
     cache : {FALSE},
     fake : {FALSE},
     num_parallel_calls : {None},
     to_gpu : {TRUE}]

\* the arguments of the call of get_dataset
PipeCalls ==
    [randomize_order : {FALSE},
     num_parallel_calls : (1..MaxParallel) \cup {AUTOTUNE},
     repeat : {None, Some(2)}]

InitPipeline ==
    /\ filenames \in PipeArchives
    /\ kwargs \in PipeConfigs
    /\ self = None
    /\ pc = "new"
    /\ arg \in PipeCalls
    /\ ret = None
    /\ NoPipeline

NextPipeline ==
    \/ Construct \/ GetDataset \/ ReadFile \/ StartChunk \/ FinishChunk \/ Collect
    \/ Deliver \/ EndOfSequence

SpecPipeline == InitPipeline /\ [][NextPipeline]_vars

----------------------------------------------------------------------------
(* Iterating the dataset of get_dataset more than once *)

MaxEpochs == 2

reiterate_order_drawn_again(order) == [k \in 1..Len(order) |-> order[Len(order) + 1 - k]]

\* from_generator(lambda: z): every iteration over the dataset calls the
\* generator again, which yields the list z drawn when get_dataset was called
reiterate_order(order) == order

\* the consumer iterates the dataset again after a complete pass: a complete
\* cache serves the units it holds and nothing before it runs; without one
\* the whole pipeline starts over
Reiterate ==
    /\ pc = "done"
    /\ epoch < MaxEpochs
    /\ epoch' = epoch + 1
    /\ pc' = "streaming"
    /\ IF self.cache /\ cached.complete
       THEN /\ units' = cached.units
            /\ UNCHANGED z
       ELSE /\ z' = reiterate_order(arg.z)
            /\ UNCHANGED units
    /\ UNCHANGED <<filenames, kwargs, self, arg, ret, slices, chunks, inflight, collected,
                   batches, cached>>

EpochArchives ==
    {[i \in 1..n |-> PipeFile(2, <<"air_temperature_2m">>, (i - 1) * FileStride)] :
        n \in 1..MaxFiles}

EpochConfigs ==
    [limit_leadtimes : {None},
     limit_predictors : {None, Some(<<"air_temperature_2m">>)},
     x_range : {None},
     y_range : {None},
     patch_size : {None, Some(1)},
     extra_features : {<<>>, <<Feature("x")>>},
     normalization : {None},
     predict_diff : {FALSE},
     batch_size : {MaxBatch},
     cache : BOOLEAN,
     fake : {FALSE},
     num_parallel_calls : {None},
     to_gpu : BOOLEAN]

EpochCalls ==
    [randomize_order : BOOLEAN,
     num_parallel_calls : {MaxParallel, AUTOTUNE},
     repeat : {None, Some(2)}]

InitEpochs ==
    /\ filenames \in EpochArchives
    /\ kwargs \in EpochConfigs
    /\ self = None
    /\ pc = "new"
    /\ arg \in EpochCalls
    /\ ret = None
    /\ NoPipeline

NextEpochs == NextPipeline \/ Reiterate

SpecEpochs == InitEpochs /\ [][NextEpochs]_vars

----------------------------------------------------------------------------
(* Properties of the pipeline *)

RECURSIVE Flatten(_)
Flatten(bs) == IF bs = <<>> THEN <<>> ELSE UnbatchPair(Head(bs)) \o Flatten(Tail(bs))

\* the sample units in the order they left the unbatch stage: those already
\* delivered in batches, then those waiting to be batched
AllUnits == Flatten(batches) \o units

NumericParallelism == arg.num_parallel_calls # AUTOTUNE

\* get_dataset has been called and its dataset is being, or has been, iterated
Iterating == pc \in {"streaming", "done"}

\* one full iteration of the dataset has ended
Drained == pc = "done"

\* what file f (0-based) holds after the dimension limits
FileData(f) == parse_file(self, filenames[f + 1])

InputChannels == FileData(0).p.shape[4]

TileSize(axis_length) == IF IsNone(self.patch_size) THEN axis_length ELSE Get(self.patch_size)

TilesAlong(axis_length) ==
    IF IsNone(self.patch_size) THEN 1 ELSE axis_length \div Get(self.patch_size)

\* whether unit u is patch k (row-major) of file f with every lead time of
\* the file, in order, in its input channels and its target
IsUnitOf(u, f, k) ==
    LET d == FileData(f)
        L == d.p.shape[1]
        py == TileSize(d.p.shape[2])
        px == TileSize(d.p.shape[3])
        ky == k \div TilesAlong(d.p.shape[3])
        kx == k % TilesAlong(d.p.shape[3])
    IN  /\ u.p.shape = <<L, py, px, d.p.shape[4] + Len(self.extra_features)>>
        /\ u.t.shape = <<L, py, px, 1>>
        /\ \A l \in 0..(L - 1), i \in 0..(py - 1), j \in 0..(px - 1) :
              /\ At(u.t, <<l, i, j, 0>>) = At(d.t, <<l, ky * py + i, kx * px + j, 0>>)
              /\ \A c \in 0..(d.p.shape[4] - 1) :
                    At(u.p, <<l, i, j, c>>) = At(d.p, <<l, ky * py + i, kx * px + j, c>>)

PatchesPerFile == TilesAlong(FileData(0).p.shape[2]) * TilesAlong(FileData(0).p.shape[3])

(* C1: with a numeric parallelism and randomize_order off, whatever the
   order in which workers finish, the sample units leave the pipeline file
   by file in ascending index order and, within a file, patch by patch in
   row-major order; each unit holds all num_leadtimes lead-time slices of
   its one file in ascending order. *)
C1_UnitsInFileAndPatchOrder ==
    (Iterating /\ NumericParallelism /\ ~arg.randomize_order) =>
        LET all == AllUnits
            P == PatchesPerFile
        IN  \A n \in 1..Len(all) :
                IsUnitOf(all[n], ((n - 1) \div P) % Len(filenames), (n - 1) % P)

\* two files of three lead times in chunks of two, the second chunk (which
\* spans both files) finished before the first, and units already delivered
C1_Witness ==
    /\ pc = "streaming" /\ NumericParallelism /\ ~arg.randomize_order
    /\ Len(filenames) = 2 /\ Len(self.leadtimes) = 3 /\ arg.num_parallel_calls = 2
    /\ Len(inflight) = 2 /\ ~inflight[1].done /\ inflight[2].done
    /\ batches # <<>>

(* C2: one full iteration yields ceil(F*P*R / B) batches for F files,
   P = num_y_patches * num_x_patches patches per file, repeat count R (1 when
   unset) and batch size B; every batch but the last holds B sample units,
   the last between 1 and B, and every (file, patch) unit is in exactly one
   batch per repetition. *)
RepeatCount == IF IsNone(arg.repeat) THEN 1 ELSE Get(arg.repeat)

C2_BatchCount ==
    Drained =>
        LET F == Len(filenames)
            P == num_patches_per_file(self)
            R == RepeatCount
            B == self.batch_size
            delivered == Flatten(batches)
        IN  /\ Len(batches) = CeilDiv(F * P * R, B)
            /\ \A b \in 1..(Len(batches) - 1) : batches[b].p.shape[1] = B
            /\ batches[Len(batches)].p.shape[1] \in 1..B
            /\ \A f \in 0..(F - 1), k \in 0..(P - 1) :
                  Cardinality({n \in 1..Len(delivered) : IsUnitOf(delivered[n], f, k)}) = R

C2_Witness ==
    /\ Drained
    /\ Len(batches) > 1
    /\ batches[Len(batches)].p.shape[1] < self.batch_size
    /\ RepeatCount = 2

(* C5: for a numeric parallelism n, every chunk handed to the transform
   chain consists of contiguous lead-time slices of one file, and only the
   last chunk of a file may be shorter than ceil(L/n). *)

\* the file and the lead time a slice of a chunk was read from, told by the
\* tag of its first element
SliceFile(c, i) == At(c.p, <<i, 0, 0, 0>>) \div FileStride
SliceLeadtime(c, i) ==
    (At(c.p, <<i, 0, 0, 0>>) % FileStride) \div (c.p.shape[2] * c.p.shape[3] * c.p.shape[4])

C5_ChunksWithinOneFile ==
    (Iterating /\ NumericParallelism) =>
        \A n \in 1..Len(chunks) :
            LET c == chunks[n]
                len == c.p.shape[1]
            IN  /\ \A i \in 1..(len - 1) :
                      /\ SliceFile(c, i) = SliceFile(c, 0)
                      /\ SliceLeadtime(c, i) = SliceLeadtime(c, 0) + i
                /\ len < ChunkLength(self, arg.num_parallel_calls) =>
                      SliceLeadtime(c, len - 1) = Len(self.leadtimes) - 1

(* C6: after extract_features, for any parallelism, the data of a file have
   input_channels + len(extra_features) channels, the k-th descriptor is
   channel input_channels + k, and its value at the file's position
   (l, y, x) is x, y or l according to its type, l counting the file's lead
   times 0..num_leadtimes-1. *)
C6_FeatureValuesAtFilePositions ==
    Iterating =>
        \A n \in 1..Len(AllUnits) :
            LET u == AllUnits[n]
                k == (n - 1) % PatchesPerFile
                ky == k \div TilesAlong(FileData(0).p.shape[3])
                kx == k % TilesAlong(FileData(0).p.shape[3])
            IN  /\ u.p.shape[4] = InputChannels + Len(self.extra_features)
                /\ \A m \in 1..Len(self.extra_features) :
                   \A l \in 0..(u.p.shape[1] - 1), i \in 0..(u.p.shape[2] - 1),
                      j \in 0..(u.p.shape[3] - 1) :
                      At(u.p, <<l, i, j, InputChannels + m - 1>>) =
                          CASE self.extra_features[m].type = "x" -> kx * u.p.shape[3] + j
                            [] self.extra_features[m].type = "y" -> ky * u.p.shape[2] + i
                            [] self.extra_features[m].type = "leadtime" -> l

----------------------------------------------------------------------------
(* C4: for a patch size ps <= min(Y, X), patch maps an (L, Y, X, C) input to
   shape (L, (Y div ps)*(X div ps), ps, ps, C) with
   output[l, ky*(X div ps)+kx, i, j, c] = input[l, ky*ps+i, kx*ps+j, c];
   trailing rows and columns beyond the last whole tile are dropped, putting
   the tiles back row-major gives the trimmed input, and targets are tiled
   the same way as predictors. *)

IsTiling(out, in, ps) ==
    LET L == in.shape[1]
        Y == in.shape[2]
        X == in.shape[3]
        C == in.shape[4]
        ny == Y \div ps
        nx == X \div ps
    IN  /\ out.shape = <<L, ny * nx, ps, ps, C>>
        /\ \A l \in 0..(L - 1), ky \in 0..(ny - 1), kx \in 0..(nx - 1),
              i \in 0..(ps - 1), j \in 0..(ps - 1), c \in 0..(C - 1) :
              At(out, <<l, ky * nx + kx, i, j, c>>) = At(in, <<l, ky * ps + i, kx * ps + j, c>>)

\* the tiles put back side by side, row-major
Unpatch(out, ny, nx) ==
    LET ps == out.shape[3]
    IN  Tensor(<<out.shape[1], ny * ps, nx * ps, out.shape[5]>>,
               LAMBDA idx : At(out, <<idx[1], (idx[2] \div ps) * nx + (idx[3] \div ps),
                                      idx[2] % ps, idx[3] % ps, idx[4]>>))

Trimmed(in, ps) ==
    Tensor(<<in.shape[1], (in.shape[2] \div ps) * ps, (in.shape[3] \div ps) * ps, in.shape[4]>>,
           LAMBDA idx : At(in, idx))

C8_DiffOffIsIdentity ==
    (pc = "done" /\ ~self.predict_diff) =>
        (ret.exc = "" /\ ret.p = arg.p /\ ret.t = arg.t)

C8_Witness ==
    /\ pc = "done" /\ ~self.predict_diff
    /\ ~Contains(self.predictor_names, "air_temperature_2m")
    /\ ret.exc = ""

(* C3: after construction with a normalization source, whatever
   limit_predictors and extra_features are, the coefficient table has exactly
   len(predictor_names) rows and row i holds the (mean, scale) pair of
   predictor_names[i]: the pair the source gives for that name, or the mean
   and standard deviation of the coordinate range for an extra feature, or
   (0, 1) when there is neither. *)

\* the N whose range 0..N-1 an extra feature of this type spans
FeatureAxisLength(type) ==
    CASE type = "x" -> self.num_x_input
      [] type = "y" -> self.num_y_input
      [] type = "leadtime" -> Len(self.leadtimes)

PairsOf(name) ==
    LET source == Get(self.normalization)
        fromSource == IF name \in DOMAIN source THEN {source[name]} ELSE {}
        fromFeature == {<<FeatureAxisLength(self.extra_features[k].type) - 1,
                          FeatureAxisLength(self.extra_features[k].type)
                            * FeatureAxisLength(self.extra_features[k].type) - 1>> :
                        k \in {j \in 1..Len(self.extra_features) :
                                  get_feature_name(self.extra_features[j]) = name}}
    IN  IF fromSource \cup fromFeature = {} THEN {<<0, 12>>}
        ELSE fromSource \cup fromFeature

C3_TableMatchesNames ==
    (pc = "constructed" /\ ~IsNone(self.normalization)) =>
        /\ Len(Get(self.coefficients)) = Len(self.predictor_names)
        /\ \A i \in 1..Len(self.predictor_names) :
              Get(self.coefficients)[i] \in PairsOf(self.predictor_names[i])

(* C9: the shape (num_leadtimes, num_y_input, num_x_input,
   num_input_predictors) resolved by load_metadata is the shape of the
   predictor array of every later read of a file whose axes have the lengths
   of the first file's, by parse_file and by generate_fake_data alike, for
   every dimension limit, lists and "start:end" strings included. *)
SameAxisLengths(f, g) ==
    /\ Len(f.leadtime) = Len(g.leadtime)
    /\ f.y = g.y
    /\ f.x = g.x
    /\ Len(f.predictor) = Len(g.predictor)
    /\ Len(f.static_predictor) = Len(g.static_predictor)

MetadataShape ==
    <<Len(self.leadtimes), self.num_y_input, self.num_x_input, self.num_input_predictors>>

C9_ReadShapeIsMetadataShape ==
    (/\ pc = "constructed"
     /\ ret # None
     /\ SameAxisLengths(filenames[arg.index + 1], filenames[1])) =>
        (ret.exc = "" /\ ret.p.shape = MetadataShape)

(* C10 as stated: when the normalization source has an entry for the name of
   an extra feature, that feature's row of the coefficient table holds the
   source's (mean, scale). *)
ExtraFeatureRows ==
    {i \in 1..Len(self.predictor_names) :
        /\ i > Len(self.predictor_names_input)
        /\ self.predictor_names[i] \in DOMAIN Get(self.normalization)}

C10_SourceEntryWins ==
    (pc = "constructed" /\ ~IsNone(self.normalization)) =>
        \A i \in ExtraFeatureRows :
            Get(self.coefficients)[i] = Get(self.normalization)[self.predictor_names[i]]

(* C10 amended: when the normalization source has an entry for the name of
   an extra feature, that feature's row holds the mean and standard
   deviation of 0..N-1 computed for the feature (N the length of its axis);
   the source's entry is overwritten before the lookup. *)
C10_AnalyticEntryWins ==
    (pc = "constructed" /\ ~IsNone(self.normalization)) =>
        \A i \in ExtraFeatureRows :
            LET N == FeatureAxisLength(
                         self.extra_features[i - Len(self.predictor_names_input)].type)
            IN  Get(self.coefficients)[i] = <<N - 1, N * N - 1>>

C10_Witness ==
    /\ pc = "constructed" /\ ~IsNone(self.normalization)
    /\ \E i \in ExtraFeatureRows :
          /\ self.predictor_names[i] = "lt"
          /\ Get(self.normalization)["lt"] = <<6, 108>>
          /\ Get(self.coefficients)[i] = <<1, 3>>

(* C11: no loader is constructed with a coefficient table that has a scale
   of 0 in any row, whether the zero comes from the normalization source or
   from an extra feature whose axis has length 1; such a table is rejected
   when it is built. *)
C11_NoZeroScale ==
    (pc = "constructed" /\ ~IsNone(self.coefficients)) =>
        \A i \in 1..Len(Get(self.coefficients)) : Get(self.coefficients)[i][2] # 0

(* C12: with an empty file list the construction fails with a ConfigError
   and no loader becomes usable. *)
C12_EmptyListIsConfigError ==
    (filenames = <<>> /\ pc \in {"constructed", "failed"}) =>
        /\ pc = "failed"
        /\ self.exc = "ConfigError"

(* C13: construction fails with a configuration error (the ValueError of
   load_metadata) exactly when patch_size is set and exceeds the x or the y
   extent left by x_range / y_range; a constructed loader with a patch size
   has at least one patch along each axis, and a loader whose construction
   failed is never used to build a dataset. *)

\* Loader(**kwargs) has been called, there is a first file and the dimension
\* limits fit it
MetadataRead ==
    /\ pc \in {"constructed", "failed"}
    /\ filenames # <<>>
    /\ LET dataset == xr_open_dataset(filenames[1])
       IN  isel(dataset, get_dimension_limits(kwargs, dataset)).exc = ""

ExtentLeft(range, axis_length) == IF IsNone(range) THEN axis_length ELSE Len(Get(range))

PatchTooLarge ==
    /\ ~IsNone(kwargs.patch_size)
    /\ \/ Get(kwargs.patch_size) > ExtentLeft(kwargs.x_range, filenames[1].x)
       \/ Get(kwargs.patch_size) > ExtentLeft(kwargs.y_range, filenames[1].y)

C14_TransferOnlyWhenAsked ==
    Iterating =>
        self.logger.to_gpu = (IF kwargs.to_gpu THEN Len(Flatten(batches)) ELSE 0)

(* C15: with cache enabled, over any number of epochs (a repeat count above
   1 or a re-iteration after a complete pass) load_file runs at most once
   per file index: count_reads never exceeds the number of files. *)
C15_CachedFilesReadOnce ==
    (Iterating /\ self.cache) => self.count_reads <= Len(filenames)

(* C16: for every constructed loader, predictor_shape = [num_leadtimes,
   num_y, num_x, num_predictors] is the shape of every sample's predictor
   tensor that the pipeline produces, whatever limit_predictors,
   extra_features and patch_size are, and num_predictors is
   len(predictor_names). *)
C16_DeclaredShapeIsSampleShape ==
    Iterating =>
        /\ self.num_predictors = Len(self.predictor_names)
        /\ \A n \in 1..Len(AllUnits) : AllUnits[n].p.shape = predictor_shape(self)

(* C17: with randomize_order on, the file indices of one get_dataset call
   are a permutation of 0..num_files-1 drawn once at the call: every
   repetition under repeat=N and every re-iteration reads the files in that
   same order. *)

\* the lead-time slices handed to the transform chain so far, over all
\* iterations, and the file each was read from
SlicesRead == Flatten(chunks)

FileOfSlice(s) == At(s.p, <<0, 0, 0>>) \div FileStride

FileOfUnit(u) == At(u.p, <<0, 0, 0, 0>>) \div FileStride

\* the order drawn by get_dataset: the first num_files entries of its list
DrawnOrder == SubSeq(arg.z, 1, Len(filenames))

C17_OneShuffleForAllEpochs ==
    (Iterating /\ arg.randomize_order) =>
        LET F == Len(filenames)
            L == Len(self.leadtimes)
            P == PatchesPerFile
            read == SlicesRead
            delivered == Flatten(batches)
        IN  /\ {DrawnOrder[i] : i \in 1..F} = 0..(F - 1)
            /\ Len(arg.z) = F * RepeatCount
            /\ \A k \in 1..Len(arg.z) : arg.z[k] = DrawnOrder[((k - 1) % F) + 1]
            /\ \A k \in 1..Len(read) :
                  FileOfSlice(read[k]) = DrawnOrder[(((k - 1) \div L) % F) + 1]
            /\ \A k \in 1..Len(delivered) :
                  FileOfUnit(delivered[k]) = DrawnOrder[(((k - 1) \div P) % F) + 1]

\* a second iteration without a cache, with repeat=2, has read the files
\* again in a drawn order that is not the ascending one
C17_Witness ==
    /\ pc = "done" /\ epoch = 2 /\ arg.randomize_order /\ ~self.cache
    /\ RepeatCount = 2
    /\ DrawnOrder = <<1, 0>>
    /\ Len(SlicesRead) = 2 * 2 * 2 * Len(self.leadtimes)

====
